---- MODULE Spec2Model ----
(***************************************************************************)
(* Model of index.js of nodejs-seedlink-stations-proxy: the HTTP handler   *)
(* starting updateAll, the recursion through the global `next`, the        *)
(* Seedlink handshake driven by socket events, the GLOBAL_STATIONS cache   *)
(* and the listing parser.                                                 *)
(*                                                                         *)
(* Texts (Buffers and strings) are sequences of one-character tokens; the  *)
(* control characters are the tokens "CR", "LF" and "SP".                  *)
(*                                                                         *)
(* JavaScript runs every handler to completion.  A handler that ends by    *)
(* calling next() leaves in `pending` the run whose code made the call;    *)
(* while it is not 0 the only enabled action is NextCall, the body of the  *)
(* function stored in `next`, so no event is interleaved with the          *)
(* synchronous call chain.                                                 *)
(***************************************************************************)
EXTENDS Integers, Sequences, FiniteSets, TLC

\* ------------------------------------------------------------------ bounds

\* Date.now() ranges over 0..MaxTime.
MaxTime == 1
\* CONFIG.REFRESH_INTERVAL, in ticks of the model clock.
REFRESH_INTERVAL == 1
\* Largest number of lines of a listing handed to parseBuffer in ParseSpec.
MaxLines == 3

\* The HTTP requests the model serves, and the host lists they may carry
\* (queryObject.host.split(",") is never empty).
Runs == {1, 2}
Hosts == {"a", "b"}
TargetLists == {<<"a">>, <<"b">>, <<"a", "b">>}

\* ------------------------------------------------------------------- texts

CR == "CR"
LF == "LF"
SP == "SP"
CRNL == <<CR, LF>>
CAT_COMMAND == <<"C", "A", "T">> \o CRNL
HELLO_COMMAND == <<"H", "E", "L", "L", "O">> \o CRNL
\* "\nEND"
END_MARK == <<LF, "E", "N", "D">>
\* "CAT command not implemented" + CRNL
CAT_NOT_IMPLEMENTED_TEXT ==
  <<"C", "A", "T", SP, "c", "o", "m", "m", "a", "n", "d", SP, "n", "o", "t", SP,
    "i", "m", "p", "l", "e", "m", "e", "n", "t", "e", "d">> \o CRNL

\* null of version and identifier (no text holds the token "null")
Null == <<"null">>
NoError == "null"

Min(a, b) == IF a < b THEN a ELSE b
Max(a, b) == IF a > b THEN a ELSE b

\* String.prototype.slice / Buffer.prototype.slice, 0-based, end exclusive,
\* negative indices counted from the end, both clamped to the length.
Slice(t, a, b) ==
  LET n == Len(t)
      aa == IF a < 0 THEN Max(n + a, 0) ELSE Min(a, n)
      bb == IF b < 0 THEN Max(n + b, 0) ELSE Min(b, n)
  IN IF aa >= bb THEN <<>> ELSE SubSeq(t, aa + 1, bb)

\* 0-based positions at which needle occurs in t
Occurrences(t, needle) ==
  {i \in 0..(Len(t) - Len(needle)) : SubSeq(t, i + 1, i + Len(needle)) = needle}

\* indexOf: the first occurrence, -1 when there is none
indexOf(t, needle) ==
  LET occ == Occurrences(t, needle)
  IN IF occ = {} THEN -1 ELSE CHOOSE i \in occ : \A j \in occ : i <= j

\* lastIndexOf: the last occurrence, -1 when there is none
lastIndexOf(t, needle) ==
  LET occ == Occurrences(t, needle)
  IN IF occ = {} THEN -1 ELSE CHOOSE i \in occ : \A j \in occ : i >= j

\* String.prototype.split with a non-empty separator
RECURSIVE split(_, _)
split(t, sep) ==
  LET i == indexOf(t, sep)
  IN IF i = -1 THEN <<t>>
     ELSE <<SubSeq(t, 1, i)>> \o split(SubSeq(t, i + Len(sep) + 1, Len(t)), sep)

WhiteSpace == {SP, CR, LF}

\* String.prototype.trim
RECURSIVE trim(_)
trim(t) ==
  IF t = <<>> THEN <<>>
  ELSE IF Head(t) \in WhiteSpace THEN trim(Tail(t))
  ELSE IF t[Len(t)] \in WhiteSpace THEN trim(SubSeq(t, 1, Len(t) - 1))
  ELSE t

\* the record the map callback of parseBuffer builds from one line
StationOf(x) ==
  [network |-> trim(Slice(x, 0, 2)),
   station |-> trim(Slice(x, 3, 8)),
   site |-> trim(Slice(x, 9, Len(x)))]

\* parseBuffer: cut off the END, split by line, map every line
parseBuffer(buffer) ==
  LET cut == Slice(buffer, 0, lastIndexOf(buffer, END_MARK))
      lines == split(cut, <<LF>>)
  IN [i \in 1..Len(lines) |-> StationOf(lines[i])]

\* ------------------------------------------------------------------- state

VARIABLES
  servers,          \* servers[r]: the array updateAll of run r pops from
  targets,          \* targets[r]: the array as the HTTP handler built it
  results,          \* results[r]: the results array of run r
  delivered,        \* delivered[r]: the arrays handed to the caller's callback
  started,          \* started[r]: the HTTP handler of request r has run
  next,             \* the global `next`: the run whose closure it holds, 0 at start
  pending,          \* the run whose code has called next(), 0 when no call is due
  socks,            \* every socket created so far, in creation order
  GLOBAL_STATIONS,  \* the cache: url -> requestData
  crashed,          \* an uncaught exception ended the process
  now,              \* Date.now()
  wroteAt,          \* wroteAt[url]: Date.now() at the last cache write
  lookup,           \* the last isCached call that found an entry, <<>> at start
  parseLines,       \* ParseSpec: the lines of the listing handed to parseBuffer
  parseOut,         \* ParseSpec: what parseBuffer returned
  parsed            \* ParseSpec: parseBuffer has been applied

vars == <<servers, targets, results, delivered, started, next, pending, socks,
          GLOBAL_STATIONS, crashed, now, wroteAt, lookup, parseLines, parseOut,
          parsed>>

runVars == <<servers, targets, results, delivered, started, next>>
parseVars == <<parseLines, parseOut, parsed>>

\* The byte streams a server may send, already cut into the chunks the
\* data events deliver.
GREETING == <<"S", "L">> \o CRNL \o <<"I", "D">> \o CRNL
LINE_HGN == <<"N", "L", SP, "H", "G", "N", SP, SP, SP, "X">>
Scripts ==
  << \* greeting in one chunk, one station line and END in one chunk
     <<GREETING, LINE_HGN \o END_MARK>>,
     \* the same bytes, greeting and listing cut in two chunks each
     <<<<"S", "L">> \o CRNL, <<"I", "D">> \o CRNL, LINE_HGN, END_MARK>>,
     \* a server that does not implement CAT
     <<GREETING, CAT_NOT_IMPLEMENTED_TEXT>>,
     \* a first chunk of three bytes
     <<<<"S", "L", CR>>, <<LF, "I", "D">> \o CRNL, LINE_HGN \o END_MARK>>,
     \* a listing without station lines: END alone
     <<GREETING, <<"E", "N", "D">>>>,
     \* a byte after the greeting's second line in the greeting's chunk
     <<GREETING \o <<"X">>, LINE_HGN \o END_MARK>>,
     \* the CAT refusal as the answer to HELLO
     <<CAT_NOT_IMPLEMENTED_TEXT>>,
     \* a listing whose first chunk has three bytes
     <<GREETING, <<"N", "L", SP>>, <<"H", "G", "N", SP, SP, SP, "X">> \o END_MARK>> >>

\* the scripts the server behind a url may follow
ScriptsOf(url) == IF url = "a" THEN {1, 4} ELSE {2, 3, 5}

\* the chosen lines of ParseSpec
Lines == {<<>>, LINE_HGN, <<"G", "E", SP, "A", "P", "E", CR>>, <<"N">>, <<SP>>}
LineLists == UNION {[1..n -> Lines] : n \in 1..MaxLines}

\* requestData as SeedlinkChecker creates it
NewRequestData(url, t) ==
  [host |-> url, stations |-> <<>>, error |-> NoError, version |-> Null,
   identifier |-> Null, connected |-> FALSE, requested |-> t]

\* a socket and the closure around it: the run whose callback it holds, the
\* url, the server's script and the position in it, the commands written,
\* the buffer, requestData, and the number of destroy() calls, of
\* parseBuffer calls and the results handed to the callback; endedBy and
\* endedIn record the event that ended the handshake and the state it was
\* in, openedAt the time SeedlinkChecker was called
NewSocket(r, url, sc, t) ==
  [owner |-> r, host |-> url, script |-> sc, pos |-> 0, wrote |-> <<>>,
   buffer |-> <<>>, requestData |-> NewRequestData(url, t),
   destroyed |-> 0, parses |-> 0, given |-> <<>>,
   endedBy |-> "none", endedIn |-> "none", openedAt |-> t]

\* the state of the handshake, as the state table names it
Phase(s) ==
  IF s.destroyed > 0 THEN "Done"
  ELSE IF s.wrote = <<>> THEN "Connecting"
  ELSE IF s.requestData.version = Null THEN "AwaitingGreeting"
  ELSE "AwaitingListing"

Live(s) == s.destroyed = 0

\* the list after a pop that leaves the last element in place
FrontKept(q) == q

\* the list after pop()
Front(q) == SubSeq(q, 1, Len(q) - 1)
Last(q) == q[Len(q)]
Copies(n, x) == [k \in 1..n |-> x]

hasOwnProperty(url) == url \in DOMAIN GLOBAL_STATIONS

\* isCached with >= for >
isCachedInclusive(host) ==
  hasOwnProperty(host) /\ GLOBAL_STATIONS[host].requested >= (now - REFRESH_INTERVAL)

isCached(host) ==
  hasOwnProperty(host) /\ GLOBAL_STATIONS[host].requested > (now - REFRESH_INTERVAL)

\* the cache write that keeps an entry requested later than data
PutIfNewer(url, data) ==
  [u \in DOMAIN GLOBAL_STATIONS \cup {url} |->
     IF u = url /\ (u \notin DOMAIN GLOBAL_STATIONS
                     \/ GLOBAL_STATIONS[u].requested <= data.requested)
       THEN data ELSE GLOBAL_STATIONS[u]]

\* GLOBAL_STATIONS[host] = data
Put(url, data) ==
  [u \in DOMAIN GLOBAL_STATIONS \cup {url} |->
     IF u = url THEN data ELSE GLOBAL_STATIONS[u]]

\* the program after start-up: no request yet, the cache empty
InitProgram ==
  /\ servers = [r \in Runs |-> <<>>]
  /\ targets = [r \in Runs |-> <<>>]
  /\ results = [r \in Runs |-> <<>>]
  /\ delivered = [r \in Runs |-> <<>>]
  /\ started = [r \in Runs |-> FALSE]
  /\ next = 0
  /\ pending = 0
  /\ socks = <<>>
  /\ GLOBAL_STATIONS = <<>>
  /\ crashed = FALSE
  /\ now = 0
  /\ wroteAt = <<>>
  /\ lookup = <<>>
  /\ parseOut = <<>>
  /\ parsed = FALSE

Init ==
  /\ InitProgram
  /\ parseLines = <<>>

\* ----------------------------------------------------------------- actions

\* The HTTP handler (the query has passed validation) calls updateAll:
\* a fresh results array, the global `next` overwritten, and next() called.
StartRun(r) ==
  /\ ~crashed /\ pending = 0
  /\ ~started[r]
  /\ IF r = 1 THEN TRUE ELSE started[r - 1]
  /\ \E list \in TargetLists :
       /\ servers' = [servers EXCEPT ![r] = list]
       /\ targets' = [targets EXCEPT ![r] = list]
  /\ started' = [started EXCEPT ![r] = TRUE]
  /\ results' = [results EXCEPT ![r] = <<>>]
  /\ next' = r
  /\ pending' = r
  /\ UNCHANGED <<delivered, socks, GLOBAL_STATIONS, crashed, now, wroteAt, lookup,
                 parseVars>>

\* the callback giving up at the first error result
CheckerCallbackAbort(r, srv, pushed) ==
  /\ results' = [results EXCEPT ![r] = @ \o pushed]
  /\ IF srv = <<>> \/ \E k \in DOMAIN pushed : pushed[k].error # NoError
       THEN /\ delivered' = [delivered EXCEPT ![r] = Append(@, results[r] \o pushed)]
            /\ pending' = 0
       ELSE /\ pending' = r
            /\ UNCHANGED delivered

\* The callback updateAll passes to SeedlinkChecker, in the closure of run r,
\* called with n results at once; srv is servers[r] at the call.
CheckerCallback(r, srv, pushed) ==
  /\ results' = [results EXCEPT ![r] = @ \o pushed]
  /\ IF srv = <<>>
       THEN /\ delivered' = [delivered EXCEPT ![r] = Append(@, results[r] \o pushed)]
            /\ pending' = 0
       ELSE /\ pending' = r
            /\ UNCHANGED delivered

\* a cache hit without the return: the callback is called and the socket
\* is created all the same
ServeCachedNoReturn(r, rest, server) ==
  /\ CheckerCallback(r, rest, <<GLOBAL_STATIONS[server]>>)
  /\ \E sc \in ScriptsOf(server) :
       socks' = Append(socks, NewSocket(r, server, sc, now))

\* SeedlinkChecker on a cache hit: the stored entry goes to the callback.
ServeCached(r, rest, server) ==
  /\ CheckerCallback(r, rest, <<GLOBAL_STATIONS[server]>>)
  /\ UNCHANGED socks

\* The body of the function stored in `next`, and the synchronous part of
\* SeedlinkChecker it calls: pop, then the cached result or a new socket.
NextCall ==
  /\ ~crashed /\ pending # 0
  /\ LET r == next IN
     IF servers[r] = <<>>
       THEN \* servers.pop() is undefined: `server.url` throws a TypeError
            /\ crashed' = TRUE
            /\ pending' = 0
            /\ UNCHANGED <<servers, results, delivered, socks, lookup>>
       ELSE LET server == Last(servers[r])
                rest == Front(servers[r])
            IN /\ servers' = [servers EXCEPT ![r] = rest]
               /\ UNCHANGED crashed
               /\ lookup' = IF hasOwnProperty(server)
                               THEN <<[host |-> server, hit |-> isCached(server),
                                       at |-> now,
                                       requested |-> GLOBAL_STATIONS[server].requested,
                                       written |-> wroteAt[server]]>>
                               ELSE lookup
               /\ IF isCached(server)
                    THEN ServeCached(r, rest, server)
                    ELSE /\ \E sc \in ScriptsOf(server) :
                              socks' = Append(socks, NewSocket(r, server, sc, now))
                         /\ pending' = 0
                         /\ UNCHANGED <<results, delivered>>
  /\ UNCHANGED <<targets, started, next, GLOBAL_STATIONS, now, wroteAt, parseVars>>

\* finish without socket.destroy()
finishNoDestroy(s) ==
  [s EXCEPT !.given = Append(@, s.requestData)]

\* finish, as far as the socket and its closure go: socket.destroy() and
\* callback(data)
finish(s) ==
  [s EXCEPT !.destroyed = @ + 1, !.given = Append(@, s.requestData)]

\* A handler of socket i ends with socket record s after calling finish n
\* times: the cache write of finish and the callback of the owning run.
Complete(i, s, n) ==
  LET sk == IF n = 0 THEN s ELSE IF n = 1 THEN finish(s) ELSE finish(finish(s))
  IN /\ socks' = [socks EXCEPT ![i] = sk]
     /\ IF n = 0
          THEN UNCHANGED <<results, delivered, pending, GLOBAL_STATIONS, wroteAt>>
          ELSE /\ GLOBAL_STATIONS' = Put(s.host, s.requestData)
               /\ wroteAt' = [u \in DOMAIN wroteAt \cup {s.host} |->
                                IF u = s.host THEN now ELSE wroteAt[u]]
               /\ CheckerCallback(s.owner, servers[s.owner], Copies(n, s.requestData))
     /\ UNCHANGED <<servers, targets, started, next, crashed, now, lookup, parseVars>>

\* the connect callback setting requestData.connected
SocketConnectMarksConnected(i) ==
  /\ ~crashed /\ pending = 0
  /\ Live(socks[i]) /\ socks[i].wrote = <<>>
  /\ Complete(i, [socks[i] EXCEPT !.wrote = <<HELLO_COMMAND>>,
                                 !.requestData.connected = TRUE], 0)

\* the connect callback: write HELLO
SocketConnect(i) ==
  /\ ~crashed /\ pending = 0
  /\ Live(socks[i]) /\ socks[i].wrote = <<>>
  /\ Complete(i, [socks[i] EXCEPT !.wrote = <<HELLO_COMMAND>>], 0)

\* the handlers without the assignment to requestData.error
onFailureNoError(s, ev) ==
  [s EXCEPT !.endedBy = ev, !.endedIn = Phase(s)]

\* the handlers parsing what has arrived of the listing
onFailureParsesBuffer(s, ev) ==
  [s EXCEPT !.requestData.error = "ECONNREFUSED",
            !.requestData.stations = IF s.buffer = <<>> THEN <<>> ELSE parseBuffer(s.buffer),
            !.endedBy = ev, !.endedIn = Phase(s)]

\* the "error" and "timeout" handlers
onFailure(s, ev) ==
  [s EXCEPT !.requestData.error = "ECONNREFUSED", !.endedBy = ev, !.endedIn = Phase(s)]

SocketError(i) ==
  /\ ~crashed /\ pending = 0
  /\ Live(socks[i])
  /\ Complete(i, onFailure(socks[i], "failure"), 1)

SocketTimeout(i) ==
  /\ ~crashed /\ pending = 0
  /\ Live(socks[i])
  /\ Complete(i, onFailure(socks[i], "failure"), 1)

\* line 223: the greeting test
isGreeting(s, buf) ==
  s.requestData.version = Null /\ Len(split(buf, CRNL)) = 3

\* the greeting accepted without resetting the buffer
acceptGreetingKeepBuffer(s, buf) ==
  LET segs == split(buf, CRNL)
  IN [s EXCEPT !.requestData.version = segs[1],
               !.requestData.identifier = segs[2],
               !.wrote = Append(@, CAT_COMMAND)]

\* lines 226-235: version and identifier recorded, the buffer reset, CAT written
acceptGreeting(s, buf) ==
  LET segs == split(buf, CRNL)
  IN [s EXCEPT !.requestData.version = segs[1],
               !.requestData.identifier = segs[2],
               !.buffer = <<>>,
               !.wrote = Append(@, CAT_COMMAND)]

\* the comparison without the line end
catNotImplementedNoCRNL(buf) ==
  buf = SubSeq(CAT_NOT_IMPLEMENTED_TEXT, 1, Len(CAT_NOT_IMPLEMENTED_TEXT) - 2)

\* line 240: the command was not implemented
catNotImplemented(buf) == buf = CAT_NOT_IMPLEMENTED_TEXT

\* line 246: end of the response
endOfResponse(buf) == lastIndexOf(buf, END_MARK) = Len(buf) - 4

\* the "data" handler: the socket record it leaves and the number of finish
\* calls it makes
onData(s, data) ==
  LET buf == s.buffer \o data
      s1 == [s EXCEPT !.requestData.connected = TRUE, !.buffer = buf,
                      !.pos = @ + 1]
  IN IF isGreeting(s, buf)
       THEN [sock |-> acceptGreeting(s1, buf), nfin |-> 0]
       ELSE LET catHit == catNotImplemented(buf)
                endHit == endOfResponse(buf)
                s2 == IF catHit
                        THEN [s1 EXCEPT !.requestData.error = "CATNOTIMPLEMENTED"]
                        ELSE s1
                s3 == IF endHit
                        THEN [s2 EXCEPT !.requestData.stations = parseBuffer(buf),
                                        !.parses = @ + 1]
                        ELSE s2
                n == (IF catHit THEN 1 ELSE 0) + (IF endHit THEN 1 ELSE 0)
            IN [sock |-> IF n = 0 THEN s3
                         ELSE [s3 EXCEPT !.endedBy = "data", !.endedIn = Phase(s)],
                nfin |-> n]

SocketData(i) ==
  /\ ~crashed /\ pending = 0
  /\ Live(socks[i]) /\ socks[i].wrote # <<>>
  /\ socks[i].pos < Len(Scripts[socks[i].script])
  /\ LET out == onData(socks[i], Scripts[socks[i].script][socks[i].pos + 1])
     IN Complete(i, out.sock, out.nfin)

\* Date.now() advances
Tick ==
  /\ ~crashed /\ pending = 0
  /\ now < MaxTime
  /\ now' = now + 1
  /\ UNCHANGED <<runVars, pending, socks, GLOBAL_STATIONS, crashed, wroteAt, lookup,
                 parseVars>>

Next ==
  \/ \E r \in Runs : StartRun(r)
  \/ NextCall
  \/ \E i \in DOMAIN socks : SocketConnect(i)
  \/ \E i \in DOMAIN socks : SocketData(i)
  \/ \E i \in DOMAIN socks : SocketError(i)
  \/ \E i \in DOMAIN socks : SocketTimeout(i)
  \/ Tick

Spec == Init /\ [][Next]_vars

\* Requests that do not overlap: a request arrives only when every earlier
\* one has been answered.
StartRunAlone(r) ==
  /\ \A q \in Runs : started[q] => delivered[q] # <<>>
  /\ StartRun(r)

NextSingle ==
  \/ \E r \in Runs : StartRunAlone(r)
  \/ NextCall
  \/ \E i \in DOMAIN socks : SocketConnect(i)
  \/ \E i \in DOMAIN socks : SocketData(i)
  \/ \E i \in DOMAIN socks : SocketError(i)
  \/ \E i \in DOMAIN socks : SocketTimeout(i)
  \/ Tick

SpecSingle == Init /\ [][NextSingle]_vars

\* ------------------------------------------------ one handshake on its own

\* One request for one target has been started and SeedlinkChecker has
\* opened its socket, to a server that may follow any of the scripts.
InitHandshake ==
  /\ \E h \in Hosts : \E sc \in DOMAIN Scripts :
       /\ targets = [r \in Runs |-> IF r = 1 THEN <<h>> ELSE <<>>]
       /\ socks = <<NewSocket(1, h, sc, 0)>>
  /\ servers = [r \in Runs |-> <<>>]
  /\ results = [r \in Runs |-> <<>>]
  /\ delivered = [r \in Runs |-> <<>>]
  /\ started = [r \in Runs |-> r = 1]
  /\ next = 1
  /\ pending = 0
  /\ GLOBAL_STATIONS = <<>>
  /\ crashed = FALSE
  /\ now = 0
  /\ wroteAt = <<>>
  /\ lookup = <<>>
  /\ parseLines = <<>>
  /\ parseOut = <<>>
  /\ parsed = FALSE

NextHandshake ==
  \/ \E i \in DOMAIN socks : SocketConnect(i)
  \/ \E i \in DOMAIN socks : SocketData(i)
  \/ \E i \in DOMAIN socks : SocketError(i)
  \/ \E i \in DOMAIN socks : SocketTimeout(i)
  \/ Tick

HandshakeSpec == InitHandshake /\ [][NextHandshake]_vars

\* ------------------------------------------------- parseBuffer on its own

RECURSIVE Join(_, _)
Join(lines, sep) ==
  IF Len(lines) = 0 THEN <<>>
  ELSE IF Len(lines) = 1 THEN lines[1]
  ELSE lines[1] \o sep \o Join(Tail(lines), sep)

\* the buffer of a completed listing: the lines, LF between them, then "\nEND"
ListingText(lines) == Join(lines, <<LF>>) \o END_MARK

InitParse ==
  /\ InitProgram
  /\ parseLines \in LineLists

\* parseBuffer applied to the listing
ApplyParse ==
  /\ ~parsed
  /\ parseOut' = parseBuffer(ListingText(parseLines))
  /\ parsed' = TRUE
  /\ UNCHANGED <<runVars, pending, socks, GLOBAL_STATIONS, crashed, now, wroteAt,
                 lookup, parseLines>>

\* the next listing
NextListing ==
  /\ parsed
  /\ parseLines' \in LineLists
  /\ parseOut' = <<>>
  /\ parsed' = FALSE
  /\ UNCHANGED <<runVars, pending, socks, GLOBAL_STATIONS, crashed, now, wroteAt,
                 lookup>>

NextParse == ApplyParse \/ NextListing

ParseSpec == InitParse /\ [][NextParse]_vars


\* ------------------------------------------------------------------ claims

Count(q, x) == Cardinality({k \in DOMAIN q : q[k] = x})
HostsOf(res) == [k \in DOMAIN res |-> res[k].host]
\* the sockets whose callback is in the closure of run r
SocketsOf(r) == {i \in DOMAIN socks : socks[i].owner = r}
\* res holds one result for every entry of list, and nothing else
OnePerTarget(res, list) ==
  /\ Len(res) = Len(list)
  /\ \A h \in Hosts : Count(HostsOf(res), h) = Count(list, h)

\* C1: every handshake started on a cache miss calls its completion
\* callback at most once, with requestData as finish left it, and destroys
\* its socket at most once; a handshake is finished exactly when both have
\* happened once, whatever connect, data, error and timeout events occurred.
\* (A destroyed socket emits no event: the event actions require Live.)
FinishedExactlyOnce ==
  \A i \in DOMAIN socks :
    LET s == socks[i]
    IN /\ s.destroyed <= 1
       /\ Len(s.given) = s.destroyed
       /\ s.destroyed = 1 =>
            /\ s.given = <<s.requestData>>
            /\ s.endedBy # "none"
            /\ Count(results[s.owner], s.requestData) >= 1
       /\ s.destroyed = 0 => s.endedBy = "none"

\* a handshake that received two chunks and one that failed are both finished
FinishedExactlyOnceWitness ==
  \E i, j \in DOMAIN socks :
    /\ socks[i].destroyed = 1 /\ socks[i].endedBy = "data" /\ socks[i].pos >= 2
    /\ socks[j].destroyed = 1 /\ socks[j].endedBy = "failure"

\* C2: in requests that do not overlap, a run of updateAll calls its
\* caller's callback at most once, and only when its list is empty and all
\* its sockets are destroyed, with exactly one result per target, whatever
\* mix of successes, errors and cache hits the targets gave.
SingleRunDeliversAll ==
  \A r \in Runs :
    /\ Len(delivered[r]) <= 1
    /\ delivered[r] # <<>> =>
         /\ servers[r] = <<>>
         /\ delivered[r][1] = results[r]
         /\ OnePerTarget(delivered[r][1], targets[r])
         /\ \A i \in SocketsOf(r) : socks[i].destroyed = 1

\* a run of two targets delivered an error and a success, one from the cache
SingleRunDeliversAllWitness ==
  \E r \in Runs :
    /\ delivered[r] # <<>>
    /\ Len(targets[r]) = 2
    /\ Cardinality(SocketsOf(r)) = 1
    /\ \E j, k \in DOMAIN delivered[r][1] :
         /\ delivered[r][1][j].error # NoError
         /\ delivered[r][1][k].error = NoError

\* C3: two runs in progress at the same time share nothing but the cache:
\* what a run delivers holds exactly one result per target of its own, a
\* call of next() runs the function of the run that made the call, and no
\* run pops from an empty list.
RunsShareOnlyCache ==
  /\ \A r \in Runs : \A k \in DOMAIN delivered[r] :
       OnePerTarget(delivered[r][k], targets[r])
  /\ pending # 0 => next = pending
  /\ ~crashed

\* no event can occur any more: the process has ended, or no call is due
\* and every socket opened has had its terminating event
Quiescent ==
  \/ crashed
  \/ pending = 0 /\ \A i \in DOMAIN socks : socks[i].destroyed > 0

\* C4: every run that is started delivers its results: once every opened
\* socket has had its terminating event, no started run is left without
\* its delivery.
EveryRunDelivers ==
  Quiescent => \A r \in Runs : started[r] => delivered[r] # <<>>

\* C5 (as claimed): an entry is served from the cache exactly while less
\* than REFRESH_INTERVAL has passed since finish wrote it.
FreshSinceWritten ==
  lookup # <<>> =>
    (lookup[1].hit <=> lookup[1].at - lookup[1].written < REFRESH_INTERVAL)

\* C5 (amended): an entry is served from the cache exactly while less than
\* REFRESH_INTERVAL has passed since its `requested` time, the time at which
\* the handshake that produced it was started.
FreshSinceRequested ==
  /\ lookup # <<>> =>
       (lookup[1].hit <=> lookup[1].at - lookup[1].requested < REFRESH_INTERVAL)
  /\ \A i \in DOMAIN socks : \A k \in DOMAIN socks[i].given :
       socks[i].given[k].requested = socks[i].openedAt

\* an entry was found stale after a handshake that took time
FreshSinceRequestedWitness ==
  /\ lookup # <<>>
  /\ ~lookup[1].hit
  /\ lookup[1].at - lookup[1].requested = REFRESH_INTERVAL
  /\ lookup[1].written > lookup[1].requested

\* the step is SeedlinkChecker called for a target whose entry is fresh
CacheHitStep ==
  /\ ~crashed /\ pending # 0
  /\ servers[next] # <<>>
  /\ isCached(Last(servers[next]))
  /\ servers' # servers

\* C6: SeedlinkChecker called for a target whose cache entry is fresh opens
\* no socket, leaves the cache as it is and hands the stored entry to the
\* callback.
CacheHitHasNoEffect ==
  [][CacheHitStep =>
       /\ socks' = socks
       /\ GLOBAL_STATIONS' = GLOBAL_STATIONS
       /\ results'[next] = Append(results[next], GLOBAL_STATIONS[Last(servers[next])])]_vars

\* a result was served from the cache
CacheHitHasNoEffectWitness ==
  /\ lookup # <<>> /\ lookup[1].hit
  /\ \E r \in Runs : Len(results[r]) > Cardinality(SocketsOf(r))

\* C7: a handshake ended by a timeout or a socket error, in whichever state,
\* ends with error = ECONNREFUSED, its socket destroyed once and its callback
\* called once.
FailureIsConnRefused ==
  \A i \in DOMAIN socks :
    socks[i].endedBy = "failure" =>
      /\ socks[i].requestData.error = "ECONNREFUSED"
      /\ socks[i].destroyed = 1
      /\ socks[i].given = <<socks[i].requestData>>
      /\ socks[i].endedIn \in {"Connecting", "AwaitingGreeting", "AwaitingListing"}

\* handshakes have failed in each of the three states
FailureIsConnRefusedWitness ==
  \A ph \in {"Connecting", "AwaitingGreeting", "AwaitingListing"} :
    \E i \in DOMAIN socks :
      /\ socks[i].endedBy = "failure" /\ socks[i].endedIn = ph
      /\ socks[i].requestData.error = "ECONNREFUSED"

\* C8: a listing buffer equal to "CAT command not implemented\r\n" after the
\* greeting ends the handshake with error = CATNOTIMPLEMENTED, parseBuffer
\* never called and stations empty.
CatNotImplementedEnds ==
  \A i \in DOMAIN socks :
    (socks[i].requestData.version # Null /\ socks[i].buffer = CAT_NOT_IMPLEMENTED_TEXT) =>
      /\ socks[i].destroyed = 1
      /\ socks[i].requestData.error = "CATNOTIMPLEMENTED"
      /\ socks[i].parses = 0
      /\ socks[i].requestData.stations = <<>>

CatNotImplementedEndsWitness ==
  \E i \in DOMAIN socks :
    /\ socks[i].requestData.version # Null
    /\ socks[i].buffer = CAT_NOT_IMPLEMENTED_TEXT
    /\ socks[i].endedIn = "AwaitingListing"
    /\ socks[i].requestData.error = "CATNOTIMPLEMENTED"

\* the chunk the next data event of socket s delivers
NextChunk(s) == Scripts[s.script][s.pos + 1]

\* a data event of socket i while no version is recorded
GreetingDataStep(i) ==
  /\ Live(socks[i])
  /\ socks[i].requestData.version = Null
  /\ Len(socks') = Len(socks)
  /\ socks'[i].pos = socks[i].pos + 1

\* C9: while no version is recorded, the data event that makes the buffer
\* split on CRLF into exactly 3 segments records version and identifier,
\* clears the buffer and writes CAT; no other data event writes anything;
\* what a socket has written is always a prefix of HELLO, CAT.
GreetingThenCatOnce ==
  /\ [](\A i \in DOMAIN socks :
          /\ socks[i].wrote \in {<<>>, <<HELLO_COMMAND>>, <<HELLO_COMMAND, CAT_COMMAND>>}
          /\ Len(socks[i].wrote) = 2 <=> socks[i].requestData.version # Null)
  /\ [][\A i \in DOMAIN socks :
          GreetingDataStep(i) =>
            LET buf == socks[i].buffer \o NextChunk(socks[i])
                segs == split(buf, CRNL)
            IN IF Len(segs) = 3
                 THEN /\ socks'[i].requestData.version = segs[1]
                      /\ socks'[i].requestData.identifier = segs[2]
                      /\ socks'[i].buffer = <<>>
                      /\ socks'[i].wrote = Append(socks[i].wrote, CAT_COMMAND)
                 ELSE /\ socks'[i].requestData.version = Null
                      /\ socks'[i].wrote = socks[i].wrote]_vars

\* a greeting that came in two chunks has been accepted
GreetingThenCatOnceWitness ==
  \E i \in DOMAIN socks :
    /\ socks[i].script = 2 /\ socks[i].pos = 2
    /\ socks[i].wrote = <<HELLO_COMMAND, CAT_COMMAND>>
    /\ socks[i].requestData.version = <<"S", "L">>
    /\ socks[i].requestData.identifier = <<"I", "D">>
    /\ socks[i].buffer = <<>>

\* the records of the non-empty lines, in line order
RECURSIVE StationsOfLines(_)
StationsOfLines(lines) ==
  IF lines = <<>> THEN <<>>
  ELSE IF Head(lines) = <<>> THEN StationsOfLines(Tail(lines))
  ELSE <<[network |-> trim(Slice(Head(lines), 0, 2)),
          station |-> trim(Slice(Head(lines), 3, 8)),
          site |-> trim(Slice(Head(lines), 9, Len(Head(lines))))]>>
       \o StationsOfLines(Tail(lines))

\* C10: parseBuffer yields one record per non-empty line of the listing, in
\* line order, with the trimmed columns [0,2), [3,8) and [9,end); an empty
\* line yields no record.
OneRecordPerNonEmptyLine ==
  parsed => parseOut = StationsOfLines(parseLines)

\* the bytes of a sequence of chunks
RECURSIVE Concat(_)
Concat(chunks) ==
  IF chunks = <<>> THEN <<>> ELSE Head(chunks) \o Concat(Tail(chunks))

\* the bytes the server of socket s sends in all, and those s has received
StreamOf(s) == Concat(Scripts[s.script])
ReceivedBy(s) == Concat(SubSeq(Scripts[s.script], 1, s.pos))

\* the stream is a two-line greeting followed by a listing that ends with
\* the line END
GreetingAndListing(stream) ==
  /\ Len(stream) >= Len(GREETING) + 3
  /\ SubSeq(stream, 1, Len(GREETING)) = GREETING
  /\ Last(split(SubSeq(stream, Len(GREETING) + 1, Len(stream)), <<LF>>)) = <<"E", "N", "D">>

\* the station lines of such a stream: the lines before the line END
StationLines(stream) ==
  Front(split(SubSeq(stream, Len(GREETING) + 1, Len(stream)), <<LF>>))

\* the handshake of s ended with a parsed listing and no error
Succeeded(s) ==
  s.destroyed > 0 /\ s.endedBy = "data" /\ s.requestData.error = NoError

\* C11: a listing completed by the terminator yields as many station
\* records as the server sent station lines before END, none for a listing
\* without station lines.
RecordsMatchLinesSent ==
  \A i \in DOMAIN socks :
    (/\ Succeeded(socks[i])
     /\ socks[i].endedIn = "AwaitingListing"
     /\ GreetingAndListing(StreamOf(socks[i]))
     /\ ReceivedBy(socks[i]) = StreamOf(socks[i])) =>
      Len(socks[i].requestData.stations) = Len(StationLines(StreamOf(socks[i])))

\* t ends with "\nEND"
EndsWithEnd(t) ==
  Len(t) >= Len(END_MARK) /\ SubSeq(t, Len(t) - Len(END_MARK) + 1, Len(t)) = END_MARK

\* C12: the data handler finishes with success, and calls parseBuffer, only
\* on a buffer that ends with "\nEND".
SuccessOnlyOnTerminator ==
  \A i \in DOMAIN socks :
    (socks[i].parses > 0 \/ Succeeded(socks[i])) => EndsWithEnd(socks[i].buffer)

\* C13: a handshake ended by the data handler (error = null with parsed
\* stations, or CATNOTIMPLEMENTED) ended in AwaitingListing: version and
\* identifier are recorded and CAT has been written.
DataEndsOnlyInListing ==
  \A i \in DOMAIN socks :
    socks[i].endedBy = "data" =>
      /\ socks[i].endedIn = "AwaitingListing"
      /\ socks[i].requestData.version # Null
      /\ socks[i].requestData.identifier # Null
      /\ socks[i].wrote = <<HELLO_COMMAND, CAT_COMMAND>>

\* no chunk of the script holds greeting bytes and listing bytes
GreetingApart(sc) ==
  \E k \in 1..Len(Scripts[sc]) : Concat(SubSeq(Scripts[sc], 1, k)) = GREETING

\* what the caller sees of a result, the url and the time apart
Outcome(d) ==
  [error |-> d.error, version |-> d.version, identifier |-> d.identifier,
   stations |-> d.stations]

\* C14: two handshakes that the data handler ended, with servers that sent
\* the same greeting and listing bytes cut into chunks in different ways,
\* greeting and listing never in one chunk, end with the same result.
ChunkingDoesNotMatter ==
  \A i, j \in DOMAIN socks :
    (/\ socks[i].endedBy = "data" /\ socks[j].endedBy = "data"
     /\ StreamOf(socks[i]) = StreamOf(socks[j])
     /\ GreetingAndListing(StreamOf(socks[i]))
     /\ GreetingApart(socks[i].script) /\ GreetingApart(socks[j].script)) =>
      Outcome(socks[i].requestData) = Outcome(socks[j].requestData)

\* C15: the sockets a run opens are open one at a time: the socket for its
\* next target is created only after the handshake of the previous one ended.
OneOpenSocketPerRun ==
  \A r \in Runs : Cardinality({i \in SocketsOf(r) : Live(socks[i])}) <= 1

\* the handshake of s failed: ended by an error or a timeout
Failed(s) == s.destroyed > 0 /\ s.endedBy = "failure"

\* C16: no target is connected to twice by one run, and a failed handshake
\* leaves exactly one result, an error result, for its target.
NoRetry ==
  /\ \A r \in Runs : \A h \in Hosts :
       Cardinality({i \in SocketsOf(r) : socks[i].host = h}) <= Count(targets[r], h)
  /\ \A i \in DOMAIN socks :
       Failed(socks[i]) =>
         /\ socks[i].requestData.error # NoError
         /\ Count(HostsOf(results[socks[i].owner]), socks[i].host) = 1
         /\ Count(results[socks[i].owner], socks[i].requestData) = 1

\* a handshake has failed and its run has gone on to its next target
NoRetryWitness ==
  \E i, j \in DOMAIN socks :
    /\ Failed(socks[i])
    /\ socks[j].owner = socks[i].owner
    /\ socks[j].host # socks[i].host
    /\ socks[j].openedAt >= socks[i].openedAt
    /\ j > i

\* C17: once the greeting is accepted, every byte received so far is in the
\* version line, in the identifier line or still in the buffer: the
\* greeting is accepted on two complete lines and nothing after them.
GreetingDiscardsNothing ==
  \A i \in DOMAIN socks :
    socks[i].requestData.version # Null =>
      ReceivedBy(socks[i]) =
        socks[i].requestData.version \o CRNL \o
        socks[i].requestData.identifier \o CRNL \o socks[i].buffer

\* every result handed to a callback, pushed, delivered or stored
Finalized ==
  UNION {{socks[i].given[k] : k \in DOMAIN socks[i].given} : i \in DOMAIN socks}
  \cup UNION {{results[r][k] : k \in DOMAIN results[r]} : r \in Runs}
  \cup UNION {UNION {{delivered[r][n][k] : k \in DOMAIN delivered[r][n]} :
                      n \in DOMAIN delivered[r]} : r \in Runs}
  \cup {GLOBAL_STATIONS[h] : h \in DOMAIN GLOBAL_STATIONS}

\* C18: a finalized result has error null, ECONNREFUSED or
\* CATNOTIMPLEMENTED, and with an error its stations list is empty: a
\* handshake ended by an error or a timeout never parsed its buffer.
ErrorMeansNoStations ==
  /\ \A d \in Finalized :
       /\ d.error \in {NoError, "ECONNREFUSED", "CATNOTIMPLEMENTED"}
       /\ d.error # NoError => d.stations = <<>>
  /\ \A i \in DOMAIN socks : Failed(socks[i]) => socks[i].parses = 0

\* a listing was cut off: the handshake failed with part of the listing in
\* its buffer
ErrorMeansNoStationsWitness ==
  \E i \in DOMAIN socks :
    /\ Failed(socks[i])
    /\ socks[i].endedIn = "AwaitingListing"
    /\ socks[i].buffer = LINE_HGN
    /\ socks[i].requestData \in Finalized

\* C19: in a finalized result connected is true exactly if a data chunk
\* arrived on the handshake's socket, and a result with connected = false
\* has error ECONNREFUSED.
ConnectedIffData ==
  /\ \A i \in DOMAIN socks :
       socks[i].destroyed > 0 =>
         /\ socks[i].requestData.connected <=> socks[i].pos >= 1
         /\ \A k \in DOMAIN socks[i].given : socks[i].given[k] = socks[i].requestData
  /\ \A d \in Finalized : ~d.connected => d.error = "ECONNREFUSED"

\* both cases: a handshake that failed after a chunk arrived, and one that
\* failed after the connect, HELLO written, without any chunk
ConnectedIffDataWitness ==
  /\ \E i \in DOMAIN socks :
       Failed(socks[i]) /\ socks[i].pos >= 1 /\ socks[i].requestData.connected
  /\ \E i \in DOMAIN socks :
       /\ Failed(socks[i]) /\ socks[i].pos = 0 /\ ~socks[i].requestData.connected
       /\ socks[i].wrote = <<HELLO_COMMAND>>

\* C20 as stated: the requested timestamp of the entry stored under an
\* identifier never decreases.
RequestedNeverDecreases ==
  [][\A h \in DOMAIN GLOBAL_STATIONS :
       /\ h \in DOMAIN GLOBAL_STATIONS'
       /\ GLOBAL_STATIONS'[h].requested >= GLOBAL_STATIONS[h].requested]_vars

\* the handshake of socket i finishes in this step
Finishes(i) == socks[i].destroyed = 0 /\ socks'[i].destroyed > 0

\* C20, amended: last write wins. A handshake that finishes overwrites the
\* entry of its identifier with its own result, whatever the requested
\* timestamp of the entry it replaces, and the cache changes in no other
\* step.
LastWriteWins ==
  [][/\ \A i \in DOMAIN socks :
          Finishes(i) =>
            /\ socks[i].host \in DOMAIN GLOBAL_STATIONS'
            /\ GLOBAL_STATIONS'[socks[i].host] = socks'[i].requestData
     /\ GLOBAL_STATIONS' # GLOBAL_STATIONS => \E i \in DOMAIN socks : Finishes(i)]_vars

\* the entry of an identifier was requested before a finished handshake for
\* that identifier was: the handshake that started earlier wrote last
LastWriteWinsWitness ==
  \E i \in DOMAIN socks :
    /\ socks[i].destroyed > 0
    /\ socks[i].host \in DOMAIN GLOBAL_STATIONS
    /\ GLOBAL_STATIONS[socks[i].host].requested < socks[i].requestData.requested

====
